---- MODULE Spec2Model ----
(***************************************************************************)
(* Model of the otelrandom instrumentation wrapper (package otelrandom):   *)
(* NewRandomGenerator builds a randomGeneratorInstrument around a wrapped  *)
(* RandomGenerator; every Intn call starts a primary span, attaches the    *)
(* payload and profiling attributes, spawns a goroutine that creates a     *)
(* linked "AsyncSpan", delegates to the wrapped generator and ends the     *)
(* primary span in a deferred call.                                        *)
(*                                                                         *)
(* The tracing library is modelled by what the wrapper observes of it:     *)
(* an SDK provider records spans (ids, parent, attributes, links) and      *)
(* exports a span when it is ended; the no-op provider hands out           *)
(* non-recording spans whose span context is empty and exports nothing.    *)
(* The process-wide provider is modelled after it has been set explicitly  *)
(* (otelkit.Stub, otel.SetTracerProvider).                                 *)
(***************************************************************************)
EXTENDS Integers, Sequences, FiniteSets, TLC

\* Number of Intn calls issued on the wrapper (they may overlap).
MaxCalls == 2

Calls == 1..MaxCalls

--------------------------------------------------------------------------
\* Values of the environment

Nil == "nil"

\* Recording (SDK) tracer providers and the discarding no-op provider.
SDKProviders == {"tp1", "tp2"}

NoopProvider == "noop"

\* The provider otel.GetTracerProvider() returns until one is installed: its
\* tracers forward to the first provider installed with
\* otel.SetTracerProvider, and start nothing that records before that.
DefaultProvider == "default"

Providers == SDKProviders \cup {NoopProvider, DefaultProvider}

\* The providers installed with otel.SetTracerProvider.
InstalledProviders == {"tp1", NoopProvider}

\* The values of the process-wide provider: the default one, until a
\* provider is installed, and the installed ones.
GlobalProviders == {DefaultProvider} \cup InstalledProviders

Payload == "method.payload"

PayloadSize == "method.payload.size"

ProcessCPUTime == "process.cpu.time"

tracerName == "opentelemetry-go-contrib/instrumentation/github.com/lumigo-io/otelrandom/RandomGenerator"

traceVersion == "0.0.1"

\* trace.SpanContext: the identifier pair; the zero value is the empty,
\* invalid span context.
EmptySpanContext == [traceID |-> 0, spanID |-> 0]

IsValid(sc) == sc.traceID # 0 /\ sc.spanID # 0

\* The caller's span (RootSpan of the tests), started before the call and
\* still open while the calls run.  It is span handle 1; the primary span
\* of call c gets handle 2c and its linked span handle 2c+1 (the SDK draws
\* fresh identifiers; the model names them after the call).
RootSpanContext == [traceID |-> 1, spanID |-> 1]

RootSpan ==
    [name |-> "RootSpan", provider |-> "tp1", recording |-> TRUE,
     sc |-> RootSpanContext, parent |-> EmptySpanContext,
     attrs |-> <<>>, links |-> <<>>, ends |-> 0]

\* context.Context: one caller-attached value and the current span (a span
\* handle, 0 when the context holds no span).
RootHandle == 1

PrimaryHandle(c) == 2 * c

AsyncHandle(c) == 2 * c + 1

Background == [value |-> "", span |-> 0]

WithValue(ctx, v) == [ctx EXCEPT !.value = v]

ContextWithSpan(ctx, h) == [ctx EXCEPT !.span = h]

\* The carriers and arguments the callers pass to Intn.
Inputs ==
    { [ctx |-> Background, n |-> -12],
      [ctx |-> ContextWithSpan(WithValue(Background, "value"), 1), n |-> 42] }

\* What the wrapped generator does with a call: return an integer or panic.
Outcomes ==
    { [kind |-> "return", val |-> 7, panic |-> ""],
      [kind |-> "panic", val |-> 0, panic |-> "boom"] }

\* What cpu.Times(false) returns: an error, or the per-unit user and system
\* times (whole seconds in the model).
CPUReadings ==
    { [err |-> TRUE, times |-> <<>>],
      [err |-> FALSE, times |-> <<[User |-> 1, System |-> 2]>>] }

--------------------------------------------------------------------------
\* attribute.Value and the attribute.Key constructors

StringValue(s) == [vtype |-> "STRING", numeric |-> 0, stringly |-> s]

IntValue(v) == [vtype |-> "INT64", numeric |-> v, stringly |-> <<>>]

Float64Value(v) == [vtype |-> "FLOAT64", numeric |-> v, stringly |-> <<>>]

KeyValue(k, v) == [Key |-> k, Value |-> v]

--------------------------------------------------------------------------
\* json.Marshal of the payload.  A payload is a tagged value: an int, or a
\* value of a type encoding/json does not support.

IntPayload(n) == [type |-> "int", int |-> n]

ChanPayload == [type |-> "chan", int |-> 0]

DigitChar == <<"0", "1", "2", "3", "4", "5", "6", "7", "8", "9">>

RECURSIVE FormatUint(_)
FormatUint(u) ==
    IF u < 10 THEN <<DigitChar[u + 1]>>
    ELSE FormatUint(u \div 10) \o <<DigitChar[(u % 10) + 1]>>

FormatInt(n) == IF n < 0 THEN <<"-">> \o FormatUint(-n) ELSE FormatUint(n)

Marshal(payload) ==
    IF payload.type = "int"
    THEN [err |-> FALSE, bytes |-> FormatInt(payload.int)]
    ELSE [err |-> TRUE, bytes |-> <<>>]

--------------------------------------------------------------------------
\* The attribute builders of the instrument

\* Variant of payloadAttributes: the payload is written with a json.Encoder,
\* which ends the encoding with a newline.
payloadAttributes_Encoder(payload) ==
    LET m == Marshal(payload)
        bytes == m.bytes \o <<"\n">>
    IN
    IF m.err THEN <<>>
    ELSE << KeyValue(Payload, StringValue(bytes)),
            KeyValue(PayloadSize, IntValue(Len(bytes))) >>

payloadAttributes(payload) ==
    LET m == Marshal(payload) IN
    IF m.err THEN <<>>
    ELSE << KeyValue(Payload, StringValue(m.bytes)),
            KeyValue(PayloadSize, IntValue(Len(m.bytes))) >>

RECURSIVE SumTimes(_)
SumTimes(times) ==
    IF times = <<>> THEN 0
    ELSE Head(times).User + Head(times).System + SumTimes(Tail(times))

\* Variant of profilingAttributes: when cpu.Times fails the attribute is
\* attached with the zero total instead of being left out.
profilingAttributes_ZeroOnError(reading) ==
    IF reading.err THEN << KeyValue(ProcessCPUTime, Float64Value(0)) >>
    ELSE << KeyValue(ProcessCPUTime, Float64Value(SumTimes(reading.times))) >>

profilingAttributes(reading) ==
    IF reading.err THEN <<>>
    ELSE << KeyValue(ProcessCPUTime, Float64Value(SumTimes(reading.times))) >>

--------------------------------------------------------------------------
\* Options and configuration

NilTracer == [provider |-> Nil, name |-> "", version |-> ""]

ZeroConfig == [TracerProvider |-> Nil, Tracer |-> NilTracer]

WithTracerProvider(tp) == [TracerProvider |-> tp]

\* TracerProvider.Tracer(name, WithInstrumentationVersion(version))
Tracer(tp, name, version) == [provider |-> tp, name |-> name, version |-> version]

\* for _, opt := range opts { opt.configure(&instrument.config) }
RECURSIVE configure(_, _)
configure(opts, c) ==
    IF opts = <<>> THEN c
    ELSE configure(Tail(opts), [c EXCEPT !.TracerProvider = Head(opts).TracerProvider])

\* The option lists the wrapper is constructed with.
OptionLists == { <<>>, <<WithTracerProvider("tp2")>> }

--------------------------------------------------------------------------
\* State

VARIABLES
    globalTP,     \* the process-wide tracer provider (otel.GetTracerProvider())
    delegate,     \* the provider a tracer given out by the default provider
                  \* forwards to (Nil while it has none)
    constructed,  \* NewRandomGenerator has returned
    opts,         \* the options NewRandomGenerator was called with
    globalAtNew,  \* what otel.GetTracerProvider() returned to NewRandomGenerator
                  \* (Nil when it was not consulted)
    config,       \* randomGeneratorInstrument.config
    spans,        \* every span started so far, by span handle
    exported,     \* handles of the spans handed to the exporters
    calls,        \* the Intn calls: position and locals of each
    async         \* the exampleAsyncSpan goroutine of each call

vars == <<globalTP, delegate, constructed, opts, globalAtNew, config, spans, exported, calls, async>>

NoOutcome == [kind |-> "none", val |-> 0, panic |-> ""]

IdleCall ==
    [pc |-> "idle", ctx |-> Background, n |-> 0,
     span |-> 0, spanCtx |-> Background,
     invoked |-> 0, gotCtx |-> Background, gotN |-> 0,
     wrapped |-> NoOutcome, ret |-> NoOutcome]

NoAsync ==
    [pc |-> "none", rootContext |-> Background,
     spanToLink |-> EmptySpanContext, span |-> 0]

Init ==
    /\ globalTP = DefaultProvider
    /\ delegate = Nil
    /\ constructed = FALSE
    /\ opts = <<>>
    /\ globalAtNew = Nil
    /\ config = ZeroConfig
    /\ spans = (RootHandle :> RootSpan)
    /\ exported = {}
    /\ calls = [c \in Calls |-> IdleCall]
    /\ async = [c \in Calls |-> NoAsync]

--------------------------------------------------------------------------
\* The tracing library as the wrapper uses it

SpanFromContext(ctx) == ctx.span

SpanContextFromContext(ctx) ==
    IF ctx.span = 0 THEN EmptySpanContext ELSE spans[ctx.span].sc

Link(sc) == [SpanContext |-> sc]

ValidLinks(links) == SelectSeq(links, LAMBDA l : IsValid(l.SpanContext))

\* The provider that starts the spans of a tracer: a tracer of the default
\* provider forwards to the provider installed first, once there is one.
TracerDelegate(tracer) ==
    IF tracer.provider = DefaultProvider /\ delegate # Nil
    THEN delegate
    ELSE tracer.provider

\* Tracer.Start(ctx, name, WithLinks(links...)): the span that gets handle h.
\* An SDK tracer continues the trace of the span in ctx, or starts a new
\* trace; the no-op tracer returns a non-recording span without a span
\* context; a tracer of the default provider that has nothing to forward to
\* returns a non-recording span that carries the span context found in ctx.
TracerStart(tracer, ctx, name, links, h) ==
    LET psc == SpanContextFromContext(ctx)
        tp  == TracerDelegate(tracer)
    IN
    IF tp \in SDKProviders
    THEN [name |-> name, provider |-> tp, recording |-> TRUE,
          sc |-> [traceID |-> IF IsValid(psc) THEN psc.traceID ELSE h,
                  spanID |-> h],
          parent |-> psc, attrs |-> <<>>, links |-> ValidLinks(links), ends |-> 0]
    ELSE [name |-> name, provider |-> tp, recording |-> FALSE,
          sc |-> IF tp = DefaultProvider THEN psc ELSE EmptySpanContext,
          parent |-> EmptySpanContext,
          attrs |-> <<>>, links |-> <<>>, ends |-> 0]

\* Span.SetAttributes(kv...)
SetAttributes(span, kvs) ==
    IF span.recording /\ span.ends = 0
    THEN [span EXCEPT !.attrs = @ \o kvs]
    ELSE span

\* Span.End(): the first End of a recording span hands it to the exporter.
SpanEnd(span) == [span EXCEPT !.ends = @ + 1]

ExportsOnEnd(span) == span.recording /\ span.ends = 0

--------------------------------------------------------------------------
\* Environment: the process-wide provider is replaced (otel.SetTracerProvider)

SetTracerProvider(tp) ==
    /\ tp # globalTP
    /\ globalTP' = tp
    /\ delegate' = IF globalTP = DefaultProvider /\ config.Tracer.provider = DefaultProvider
                    THEN tp
                    ELSE delegate
    /\ UNCHANGED <<constructed, opts, globalAtNew, config, spans, exported, calls, async>>

--------------------------------------------------------------------------
\* NewRandomGenerator(rnd, opts...)

\* Variant of NewConfig: the provider set by the options is not used.
NewConfig_IgnoresOptions(os) ==
    [TracerProvider |-> globalTP, Tracer |-> Tracer(globalTP, tracerName, traceVersion)]

\* The configuration NewRandomGenerator leaves in the instrument: the options
\* applied in order, the process-wide provider when no option set one, and
\* the tracer obtained from the resulting provider.
NewConfig(os) ==
    LET c  == configure(os, ZeroConfig)
        tp == IF c.TracerProvider = Nil THEN globalTP ELSE c.TracerProvider
    IN  [TracerProvider |-> tp, Tracer |-> Tracer(tp, tracerName, traceVersion)]

NewRandomGenerator(os) ==
    /\ ~constructed
    /\ constructed' = TRUE
    /\ opts' = os
    /\ globalAtNew' = IF configure(os, ZeroConfig).TracerProvider = Nil THEN globalTP ELSE Nil
    /\ config' = NewConfig(os)
    /\ UNCHANGED <<globalTP, delegate, spans, exported, calls, async>>

--------------------------------------------------------------------------
\* randomGeneratorInstrument.Intn(ctx, n)

\* The tracer the instrument starts its spans with.
InstrumentTracer == config.Tracer

\* Variant of IntnStart: the primary span is started from
\* context.Background() instead of the incoming ctx.
IntnStart_FromBackground(c, in) ==
    /\ constructed
    /\ calls[c].pc = "idle"
    /\ IF c = 1 THEN TRUE ELSE calls[c - 1].pc # "idle"
    /\ LET h == PrimaryHandle(c) IN
       /\ spans' = spans @@ (h :> TracerStart(InstrumentTracer, Background, "RandomGenerator.Intn", <<>>, h))
       /\ calls' = [calls EXCEPT ![c] =
               [@ EXCEPT !.pc = "attrs", !.ctx = in.ctx, !.n = in.n,
                         !.span = h, !.spanCtx = ContextWithSpan(in.ctx, h)]]
    /\ UNCHANGED <<globalTP, delegate, constructed, opts, globalAtNew, config, exported, async>>

\* Line 55-56: the caller enters Intn; the primary span is started from the
\* incoming ctx and its End is deferred.  Calls are numbered in the order
\* they start.
IntnStart(c, in) ==
    /\ constructed
    /\ calls[c].pc = "idle"
    /\ IF c = 1 THEN TRUE ELSE calls[c - 1].pc # "idle"
    /\ LET h == PrimaryHandle(c) IN
       /\ spans' = spans @@ (h :> TracerStart(InstrumentTracer, in.ctx, "RandomGenerator.Intn", <<>>, h))
       /\ calls' = [calls EXCEPT ![c] =
               [@ EXCEPT !.pc = "attrs", !.ctx = in.ctx, !.n = in.n,
                         !.span = h, !.spanCtx = ContextWithSpan(in.ctx, h)]]
    /\ UNCHANGED <<globalTP, delegate, constructed, opts, globalAtNew, config, exported, async>>

\* Variant of IntnSetAttributes: the argument is kept in a field shared by
\* the calls, so the payload is built from the n of the call that entered last.
IntnSetAttributes_SharedArgument(c, reading) ==
    /\ calls[c].pc = "attrs"
    /\ LET h == calls[c].span
           last == CHOOSE d \in Calls :
                       calls[d].pc # "idle" /\ \A e \in Calls : calls[e].pc # "idle" => e <= d
       IN
       spans' = [spans EXCEPT ![h] =
           SetAttributes(SetAttributes(@, payloadAttributes(IntPayload(calls[last].n))),
                         profilingAttributes(reading))]
    /\ calls' = [calls EXCEPT ![c].pc = "go"]
    /\ UNCHANGED <<globalTP, delegate, constructed, opts, globalAtNew, config, exported, async>>

\* Line 57-58: the payload and the profiling attributes are set on the span.
IntnSetAttributes(c, reading) ==
    /\ calls[c].pc = "attrs"
    /\ LET h == calls[c].span IN
       spans' = [spans EXCEPT ![h] =
           SetAttributes(SetAttributes(@, payloadAttributes(IntPayload(calls[c].n))),
                         profilingAttributes(reading))]
    /\ calls' = [calls EXCEPT ![c].pc = "go"]
    /\ UNCHANGED <<globalTP, delegate, constructed, opts, globalAtNew, config, exported, async>>

\* Variant of IntnDelegate: the goroutine is given spanCtx, the context
\* derived from the primary span, instead of the incoming ctx.
IntnDelegate_GoDerivedContext(c) ==
    /\ calls[c].pc = "go"
    /\ async' = [async EXCEPT ![c] =
           [@ EXCEPT !.pc = "spawned", !.rootContext = calls[c].spanCtx,
                     !.spanToLink = spans[calls[c].span].sc]]
    /\ calls' = [calls EXCEPT ![c] =
           [@ EXCEPT !.pc = "wrapped", !.invoked = @ + 1,
                     !.gotCtx = calls[c].spanCtx, !.gotN = calls[c].n]]
    /\ UNCHANGED <<globalTP, delegate, constructed, opts, globalAtNew, config, spans, exported>>

\* Variant of IntnDelegate: the wrapped generator is called with n - 1.
IntnDelegate_OffByOne(c) ==
    /\ calls[c].pc = "go"
    /\ async' = [async EXCEPT ![c] =
           [@ EXCEPT !.pc = "spawned", !.rootContext = calls[c].ctx,
                     !.spanToLink = spans[calls[c].span].sc]]
    /\ calls' = [calls EXCEPT ![c] =
           [@ EXCEPT !.pc = "wrapped", !.invoked = @ + 1,
                     !.gotCtx = calls[c].spanCtx, !.gotN = calls[c].n - 1]]
    /\ UNCHANGED <<globalTP, delegate, constructed, opts, globalAtNew, config, spans, exported>>

\* Variant of IntnDelegate: the wrapped generator is given the incoming ctx.
IntnDelegate_IncomingContext(c) ==
    /\ calls[c].pc = "go"
    /\ async' = [async EXCEPT ![c] =
           [@ EXCEPT !.pc = "spawned", !.rootContext = calls[c].ctx,
                     !.spanToLink = spans[calls[c].span].sc]]
    /\ calls' = [calls EXCEPT ![c] =
           [@ EXCEPT !.pc = "wrapped", !.invoked = @ + 1,
                     !.gotCtx = calls[c].ctx, !.gotN = calls[c].n]]
    /\ UNCHANGED <<globalTP, delegate, constructed, opts, globalAtNew, config, spans, exported>>

\* Line 61-62: go i.exampleAsyncSpan(ctx, span.SpanContext()) evaluates the
\* arguments and spawns the goroutine, which runs on its own; then
\* i.RandomGenerator.Intn(spanCtx, n) is called.
IntnDelegate(c) ==
    /\ calls[c].pc = "go"
    /\ async' = [async EXCEPT ![c] =
           [@ EXCEPT !.pc = "spawned", !.rootContext = calls[c].ctx,
                     !.spanToLink = spans[calls[c].span].sc]]
    /\ calls' = [calls EXCEPT ![c] =
           [@ EXCEPT !.pc = "wrapped", !.invoked = @ + 1,
                     !.gotCtx = calls[c].spanCtx, !.gotN = calls[c].n]]
    /\ UNCHANGED <<globalTP, delegate, constructed, opts, globalAtNew, config, spans, exported>>

\* Variant of IntnReturn: Intn joins the goroutine it spawned (as with a
\* sync.WaitGroup) before it gives the wrapped result to the caller.
IntnReturn_AwaitsAsync(c, out) ==
    /\ calls[c].pc = "wrapped"
    /\ async[c].pc = "done"
    /\ LET h == calls[c].span IN
       /\ spans' = [spans EXCEPT ![h] = SpanEnd(@)]
       /\ exported' = IF ExportsOnEnd(spans[h]) THEN exported \cup {h} ELSE exported
    /\ calls' = [calls EXCEPT ![c] = [@ EXCEPT !.pc = "done", !.wrapped = out, !.ret = out]]
    /\ UNCHANGED <<globalTP, delegate, constructed, opts, globalAtNew, config, async>>

\* Variant of IntnReturn: Intn has no span.End(); the primary span is left
\* open when the caller resumes.
IntnReturn_SpanLeftOpen(c, out) ==
    /\ calls[c].pc = "wrapped"
    /\ calls' = [calls EXCEPT ![c] = [@ EXCEPT !.pc = "done", !.wrapped = out, !.ret = out]]
    /\ UNCHANGED <<globalTP, delegate, constructed, opts, globalAtNew, config, spans, exported, async>>

\* Variant of IntnReturn: the deferred function calls recover(), so a panic
\* of the wrapped generator ends in Intn returning the zero int.
IntnReturn_Recovers(c, out) ==
    /\ calls[c].pc = "wrapped"
    /\ LET h == calls[c].span IN
       /\ spans' = [spans EXCEPT ![h] = SpanEnd(@)]
       /\ exported' = IF ExportsOnEnd(spans[h]) THEN exported \cup {h} ELSE exported
    /\ calls' = [calls EXCEPT ![c] =
           [@ EXCEPT !.pc = "done", !.wrapped = out,
                     !.ret = IF out.kind = "panic"
                             THEN [kind |-> "return", val |-> 0, panic |-> ""]
                             ELSE out]]
    /\ UNCHANGED <<globalTP, delegate, constructed, opts, globalAtNew, config, async>>

\* Variant of IntnReturn: span.End() is a plain statement after the wrapped
\* call instead of a deferred one, so a panic skips it.
IntnReturn_NotDeferred(c, out) ==
    /\ calls[c].pc = "wrapped"
    /\ LET h == calls[c].span
           ends == out.kind = "return"
       IN
       /\ spans' = [spans EXCEPT ![h] = IF ends THEN SpanEnd(@) ELSE @]
       /\ exported' = IF ends /\ ExportsOnEnd(spans[h]) THEN exported \cup {h} ELSE exported
    /\ calls' = [calls EXCEPT ![c] = [@ EXCEPT !.pc = "done", !.wrapped = out, !.ret = out]]
    /\ UNCHANGED <<globalTP, delegate, constructed, opts, globalAtNew, config, async>>

\* Line 62 and 56: the wrapped generator finishes, returning an integer or
\* panicking; on the way out of Intn, by return or by panic, the deferred
\* span.End() runs; the caller gets the wrapped result or the panic.
IntnReturn(c, out) ==
    /\ calls[c].pc = "wrapped"
    /\ LET h == calls[c].span IN
       /\ spans' = [spans EXCEPT ![h] = SpanEnd(@)]
       /\ exported' = IF ExportsOnEnd(spans[h]) THEN exported \cup {h} ELSE exported
    /\ calls' = [calls EXCEPT ![c] = [@ EXCEPT !.pc = "done", !.wrapped = out, !.ret = out]]
    /\ UNCHANGED <<globalTP, delegate, constructed, opts, globalAtNew, config, async>>

--------------------------------------------------------------------------
\* randomGeneratorInstrument.exampleAsyncSpan(rootContext, spanToLink)

\* Variant of exampleAsyncSpan: the goroutine is not given the span context
\* by value; it reads a span field the calls share, which holds the primary
\* span of the call that entered last.
exampleAsyncSpan_SharedSpan(c) ==
    /\ async[c].pc = "spawned"
    /\ LET h == AsyncHandle(c)
           last == CHOOSE d \in Calls :
                       calls[d].pc # "idle" /\ \A e \in Calls : calls[e].pc # "idle" => e <= d
           s == TracerStart(InstrumentTracer, async[c].rootContext, "AsyncSpan",
                            <<Link(spans[calls[last].span].sc)>>, h)
       IN
       /\ spans' = spans @@ (h :> SpanEnd(s))
       /\ exported' = IF ExportsOnEnd(s) THEN exported \cup {h} ELSE exported
       /\ async' = [async EXCEPT ![c] = [@ EXCEPT !.pc = "done", !.span = h]]
    /\ UNCHANGED <<globalTP, delegate, constructed, opts, globalAtNew, config, calls>>

\* Variant of exampleAsyncSpan: the linked span is started and never ended.
exampleAsyncSpan_NeverEnded(c) ==
    /\ async[c].pc = "spawned"
    /\ LET h == AsyncHandle(c)
           s == TracerStart(InstrumentTracer, async[c].rootContext, "AsyncSpan",
                            <<Link(async[c].spanToLink)>>, h)
       IN
       /\ spans' = spans @@ (h :> s)
       /\ async' = [async EXCEPT ![c] = [@ EXCEPT !.pc = "done", !.span = h]]
    /\ UNCHANGED <<globalTP, delegate, constructed, opts, globalAtNew, config, exported, calls>>

\* Line 105-110: the goroutine runs the whole function: the linked span is
\* started from rootContext with one link, the function has no other work,
\* and the deferred asyncSpan.End() ends the span.
exampleAsyncSpan(c) ==
    /\ async[c].pc = "spawned"
    /\ LET h == AsyncHandle(c)
           s == TracerStart(InstrumentTracer, async[c].rootContext, "AsyncSpan",
                            <<Link(async[c].spanToLink)>>, h)
       IN
       /\ spans' = spans @@ (h :> SpanEnd(s))
       /\ exported' = IF ExportsOnEnd(s) THEN exported \cup {h} ELSE exported
       /\ async' = [async EXCEPT ![c] = [@ EXCEPT !.pc = "done", !.span = h]]
    /\ UNCHANGED <<globalTP, delegate, constructed, opts, globalAtNew, config, calls>>

--------------------------------------------------------------------------
\* Specifications

Next ==
    \/ \E tp \in InstalledProviders : SetTracerProvider(tp)
    \/ \E os \in OptionLists : NewRandomGenerator(os)
    \/ \E c \in Calls, in \in Inputs : IntnStart(c, in)
    \/ \E c \in Calls, reading \in CPUReadings : IntnSetAttributes(c, reading)
    \/ \E c \in Calls : IntnDelegate(c)
    \/ \E c \in Calls, out \in Outcomes : IntnReturn(c, out)
    \/ \E c \in Calls : exampleAsyncSpan(c)

Spec == Init /\ [][Next]_vars

\* The Go scheduler eventually runs every goroutine that can run: a spawned
\* exampleAsyncSpan gets to run.
FairSpec == Spec /\ \A c \in Calls : WF_vars(exampleAsyncSpan(c))

--------------------------------------------------------------------------
\* Properties

Entered(c) == calls[c].pc # "idle"

Running(c) == calls[c].pc \in {"attrs", "go", "wrapped"}

Exited(c) == calls[c].pc = "done"

Returned(c) == Exited(c) /\ calls[c].ret.kind = "return"

Panicked(c) == Exited(c) /\ calls[c].ret.kind = "panic"

PrimarySpan(c) == spans[PrimaryHandle(c)]

LinkedSpan(c) == spans[AsyncHandle(c)]

\* C1: one call to the wrapper's Intn invokes the wrapped generator's Intn
\* exactly once, with the caller's n, and a call that returns returns exactly
\* the integer that invocation returned.
C1_PassThrough ==
    \A c \in Calls :
        /\ calls[c].invoked <= 1
        /\ calls[c].pc \in {"wrapped", "done"} =>
               calls[c].invoked = 1 /\ calls[c].gotN = calls[c].n
        /\ (Exited(c) /\ calls[c].wrapped.kind = "return") =>
               /\ calls[c].ret.kind = "return"
               /\ calls[c].ret.val = calls[c].wrapped.val

C1_Witness ==
    \E c \in Calls :
        /\ Returned(c) /\ calls[c].n = 42 /\ calls[c].gotN = 42
        /\ calls[c].wrapped.val = 7 /\ calls[c].ret.val = 7

\* C2: the primary span is open from its creation until the wrapped
\* operation has finished, and has been ended exactly once when Intn exits,
\* by return and by panic alike; it is never ended while the wrapped
\* operation runs and never ended twice.
C2_PrimarySpanEndedOnce ==
    \A c \in Calls :
        /\ Running(c) => PrimarySpan(c).ends = 0 /\ PrimaryHandle(c) \notin exported
        /\ Exited(c) =>
               /\ PrimarySpan(c).ends = 1
               /\ PrimarySpan(c).recording => PrimaryHandle(c) \in exported

C2_Witness ==
    \E c \in Calls :
        /\ Panicked(c) /\ PrimarySpan(c).ends = 1
        /\ PrimarySpan(c).recording /\ PrimaryHandle(c) \in exported

ExportedSpans == {spans[h] : h \in exported}

\* The values a span carries under an attribute key.
AttrValues(span, key) ==
    {span.attrs[i].Value : i \in {j \in DOMAIN span.attrs : span.attrs[j].Key = key}}

\* C4: after a call to Intn with a carrier that holds the caller's span has
\* returned, the goroutine being scheduled fairly, the exporter eventually
\* holds a span whose parent is the caller's span context and which has a
\* link whose target differs from that parent and is the span context of
\* another exported span: it is always eventually so for every call that has
\* returned.  (The instrument's tracer records.)
C4_Linked(c) ==
    \E a \in ExportedSpans :
        /\ a.parent = SpanContextFromContext(calls[c].ctx)
        /\ \E i \in DOMAIN a.links :
               /\ a.links[i].SpanContext # a.parent
               /\ \E e \in ExportedSpans : e # a /\ e.sc = a.links[i].SpanContext

C4_EventuallyLinkedSpanExported ==
    []<>(\A c \in Calls :
            (Returned(c) /\ calls[c].ctx.span # 0 /\ PrimarySpan(c).recording)
                => C4_Linked(c))

C4_Witness ==
    \E c \in Calls :
        /\ Returned(c) /\ calls[c].ctx.span = RootHandle /\ PrimarySpan(c).recording
        /\ C4_Linked(c)
        /\ {PrimaryHandle(c), AsyncHandle(c)} \subseteq exported

\* C5: when Intn is called with a carrier that holds an active span, the
\* primary span of the call has a non-empty parent whose trace identifier is
\* the trace identifier of that span.  (Spans of a recording tracer; the
\* no-op tracer creates no span.)
C5_TraceparentContinuity ==
    \A c \in Calls :
        (Entered(c) /\ calls[c].ctx.span # 0 /\ PrimarySpan(c).recording) =>
            /\ IsValid(PrimarySpan(c).parent)
            /\ PrimarySpan(c).parent.traceID = spans[calls[c].ctx.span].sc.traceID
            /\ PrimarySpan(c).sc.traceID = spans[calls[c].ctx.span].sc.traceID

C5_Witness ==
    \E c \in Calls :
        /\ PrimaryHandle(c) \in exported /\ calls[c].ctx.span = RootHandle
        /\ PrimarySpan(c).parent = RootSpanContext
        /\ PrimarySpan(c).sc.spanID # RootSpanContext.spanID

\* The decimal text of an integer, as JSON writes a number: an optional
\* minus sign, then digits without a leading zero.
IsDigit(ch) == \E d \in DOMAIN DigitChar : DigitChar[d] = ch

DigitValue(ch) == (CHOOSE d \in DOMAIN DigitChar : DigitChar[d] = ch) - 1

RECURSIVE DecimalValue(_)
DecimalValue(ds) ==
    IF ds = <<>> THEN 0
    ELSE 10 * DecimalValue(SubSeq(ds, 1, Len(ds) - 1)) + DigitValue(ds[Len(ds)])

IsDecimalTextOf(text, n) ==
    LET neg == Len(text) > 0 /\ text[1] = "-"
        ds  == IF neg THEN Tail(text) ELSE text
    IN  /\ Len(ds) >= 1
        /\ \A i \in DOMAIN ds : IsDigit(ds[i])
        /\ Len(ds) > 1 => ds[1] # "0"
        /\ neg <=> n < 0
        /\ n = IF neg THEN 0 - DecimalValue(ds) ELSE DecimalValue(ds)

\* C6: the primary span exported for a call Intn(ctx, n) carries
\* method.payload, the JSON encoding of n (its decimal text), and
\* method.payload.size, the byte length of that encoding.
C6_PayloadAttributes ==
    \A c \in Calls :
        PrimaryHandle(c) \in exported =>
            \E v \in AttrValues(PrimarySpan(c), Payload) :
                /\ AttrValues(PrimarySpan(c), Payload) = {v}
                /\ v.vtype = "STRING"
                /\ IsDecimalTextOf(v.stringly, calls[c].n)
                /\ AttrValues(PrimarySpan(c), PayloadSize) = {IntValue(Len(v.stringly))}

C6_Witness ==
    \E c \in Calls :
        /\ PrimaryHandle(c) \in exported /\ calls[c].n = -12
        /\ AttrValues(PrimarySpan(c), Payload) = {StringValue(<<"-", "1", "2">>)}
        /\ AttrValues(PrimarySpan(c), PayloadSize) = {IntValue(3)}

\* The provider the options hand to the instrument (Nil when none does).
Override == IF opts = <<>> THEN Nil ELSE opts[Len(opts)].TracerProvider

\* The spans the calls on the instrument have started.
InstrumentSpans == {spans[h] : h \in DOMAIN spans \ {RootHandle}}

\* C7: when the wrapper is constructed with a tracer-provider override,
\* every span of every call, primary and linked, is created through that
\* provider, whatever the process-wide provider was at construction and is
\* at the call, the no-op provider included.
C7_OverridePrecedence ==
    (constructed /\ Override # Nil) =>
        /\ \A s \in InstrumentSpans : s.provider = Override
        /\ \A c \in Calls :
               /\ Entered(c) => PrimarySpan(c).provider = Override
               /\ async[c].pc = "done" => LinkedSpan(c).provider = Override

C7_Witness ==
    /\ constructed /\ Override = "tp2" /\ globalTP = NoopProvider
    /\ \E c \in Calls :
           /\ {PrimaryHandle(c), AsyncHandle(c)} \subseteq exported
           /\ PrimarySpan(c).provider = "tp2" /\ LinkedSpan(c).provider = "tp2"

\* C8 as stated: without an override the process-wide provider is resolved
\* when Intn is called, so the primary span of a call is created through the
\* provider that is the process-wide one at that moment.
C8_CallTimeResolution ==
    [][\A c \in Calls :
          (Override = Nil /\ calls[c].pc = "idle" /\ calls'[c].pc # "idle") =>
              spans'[PrimaryHandle(c)].provider = globalTP]_vars

\* The wrapper was constructed without an override while the no-op provider
\* was the process-wide one, tp1 was installed after that, and a call made
\* after the replacement has returned with its primary span started by the
\* no-op provider and nothing exported.
C8_Witness ==
    /\ constructed /\ Override = Nil
    /\ globalAtNew = NoopProvider /\ globalTP = "tp1"
    /\ Returned(1)
    /\ PrimarySpan(1).provider = NoopProvider /\ ~PrimarySpan(1).recording
    /\ exported = {}

\* C9: the carrier the wrapped operation receives is the one derived from
\* the primary span: the caller's value is readable from it unchanged, and
\* its current span is the primary span of the call, not the caller's span.
C9_DerivedCarrier ==
    \A c \in Calls :
        calls[c].invoked > 0 =>
            /\ calls[c].gotCtx.value = calls[c].ctx.value
            /\ SpanFromContext(calls[c].gotCtx) = PrimaryHandle(c)
            /\ SpanFromContext(calls[c].gotCtx) # SpanFromContext(calls[c].ctx)
            /\ SpanContextFromContext(calls[c].gotCtx) = PrimarySpan(c).sc

C9_Witness ==
    \E c \in Calls :
        /\ calls[c].invoked = 1 /\ calls[c].ctx.value = "value"
        /\ calls[c].gotCtx.value = "value"
        /\ calls[c].ctx.span = RootHandle /\ calls[c].gotCtx.span = PrimaryHandle(c)
        /\ PrimarySpan(c).recording

\* C10: with calls on the same wrapper overlapping in any interleaving, each
\* call gets the outcome of its own wrapped operation, the exporter gains
\* exactly one primary span per call and that span carries the call's own
\* payload attributes, and no call changes the wrapper's configuration.
\* (The exporter is the one of the instrument's tracer, when it records.)
C10_Isolated ==
    /\ \A c \in Calls :
           /\ Exited(c) => calls[c].ret = calls[c].wrapped
           /\ (Exited(c) /\ PrimarySpan(c).recording) =>
                  /\ PrimaryHandle(c) \in exported
                  /\ \E v \in AttrValues(PrimarySpan(c), Payload) :
                         /\ AttrValues(PrimarySpan(c), Payload) = {v}
                         /\ IsDecimalTextOf(v.stringly, calls[c].n)
                         /\ AttrValues(PrimarySpan(c), PayloadSize) = {IntValue(Len(v.stringly))}
    /\ Cardinality({h \in exported : spans[h].name = "RandomGenerator.Intn"})
           = Cardinality({c \in Calls : Exited(c) /\ PrimarySpan(c).recording})

C10_ConcurrentCalls ==
    /\ []C10_Isolated
    /\ [][constructed => config' = config]_vars

C10_Witness ==
    /\ calls[1].pc = "wrapped" /\ Returned(2)
    /\ calls[1].n # calls[2].n
    /\ PrimaryHandle(2) \in exported /\ PrimaryHandle(1) \notin exported
    /\ AttrValues(PrimarySpan(1), Payload) # AttrValues(PrimarySpan(2), Payload)

\* C11: Intn never waits for the goroutine it spawned: whenever the wrapped
\* generator is about to finish, Intn can exit with any of its outcomes
\* whatever the goroutine has done so far, the outcome the caller gets is the
\* wrapped one, and a step of the goroutine changes nothing of any call.
C11_NeverWaitsForAsync ==
    /\ [](\A c \in Calls :
            /\ calls[c].pc = "wrapped" =>
                   \A out \in Outcomes : ENABLED IntnReturn(c, out)
            /\ Exited(c) => calls[c].ret = calls[c].wrapped)
    /\ [][(\E c \in Calls : async[c].pc = "spawned" /\ async'[c].pc = "done")
              => calls' = calls]_vars

\* Intn has returned 7 to its caller while the linked span of the call has
\* been neither started nor ended.
C11_Witness ==
    \E c \in Calls :
        /\ Returned(c) /\ calls[c].ret.val = 7
        /\ async[c].pc = "spawned"
        /\ AsyncHandle(c) \notin DOMAIN spans
        /\ AsyncHandle(c) \notin exported

\* C12: once a call to Intn has returned, the backend of the provider the
\* wrapper was constructed with holds at least one exported span, the primary
\* span of that call, already in the state in which the caller resumes; a
\* span once exported stays exported.  (A provider with a backend; the no-op
\* provider has none.)
C12_PrimarySpanEmittedOnReturn ==
    /\ [](\A c \in Calls :
            (Returned(c) /\ config.TracerProvider \in SDKProviders) =>
                /\ exported # {}
                /\ \E h \in exported :
                       /\ h = calls[c].span
                       /\ spans[h].name = "RandomGenerator.Intn"
                       /\ spans[h].provider = config.TracerProvider)
    /\ [][exported \subseteq exported']_vars

\* The first call has returned, and its primary span is the only span
\* exported so far: the goroutine of the call has not run yet.
C12_Witness ==
    /\ Returned(1)
    /\ config.TracerProvider \in SDKProviders
    /\ exported = {PrimaryHandle(1)}
    /\ async[1].pc = "spawned"

\* Payloads payloadAttributes is applied to: the arguments of the calls, a
\* negative int, and a value json.Marshal rejects.
C13_Payloads == {IntPayload(in.n) : in \in Inputs} \cup {IntPayload(-5), ChanPayload}

C13_Keys(kvs) == {kvs[i].Key : i \in DOMAIN kvs}

C13_FailedReadings == {r \in CPUReadings : r.err}

\* The step of line 57-58 with the reading r, leaving the span without
\* process.cpu.time and the call on its way to the wrapped generator.
C13_StepWithoutCPUTime(c, r) ==
    /\ IntnSetAttributes(c, r)
    /\ AttrValues(spans'[calls[c].span], ProcessCPUTime) = {}
    /\ calls'[c].pc = "go"

\* The same step leaving process.cpu.time on the span.
C13_StepWithCPUTime(c, r) ==
    /\ IntnSetAttributes(c, r)
    /\ AttrValues(spans'[calls[c].span], ProcessCPUTime) # {}

\* C13: when json.Marshal fails payloadAttributes yields no attribute, and
\* it never yields one of method.payload, method.payload.size without the
\* other; when cpu.Times fails, the step of Intn that sets the attributes
\* goes on to the wrapped generator with the span left without
\* process.cpu.time, and cannot leave it on; a call whose recording span got no
\* process.cpu.time still has its payload attributes, has ended and exported
\* its primary span once, has invoked the wrapped generator once, and exits
\* with the wrapped outcome.
C13_AttributeFailuresAreSilent ==
    /\ \A p \in C13_Payloads :
           /\ Marshal(p).err => payloadAttributes(p) = <<>>
           /\ C13_Keys(payloadAttributes(p)) \in {{}, {Payload, PayloadSize}}
    /\ \A c \in Calls :
           /\ calls[c].pc = "attrs" =>
                  \A r \in C13_FailedReadings :
                      /\ ENABLED C13_StepWithoutCPUTime(c, r)
                      /\ ~ ENABLED C13_StepWithCPUTime(c, r)
           /\ Entered(c) =>
                  (AttrValues(PrimarySpan(c), Payload) = {}
                       <=> AttrValues(PrimarySpan(c), PayloadSize) = {})
           /\ (Exited(c) /\ PrimarySpan(c).recording
                   /\ AttrValues(PrimarySpan(c), ProcessCPUTime) = {}) =>
                  /\ AttrValues(PrimarySpan(c), Payload) # {}
                  /\ PrimarySpan(c).ends = 1
                  /\ PrimaryHandle(c) \in exported
                  /\ calls[c].invoked = 1
                  /\ calls[c].ret = calls[c].wrapped

\* cpu.Times failed in a call that went on to return 7 with its span
\* exported, carrying the payload attributes and no process.cpu.time; and
\* json.Marshal rejects the channel payload, which gets no attribute.
C13_Witness ==
    /\ Marshal(ChanPayload).err /\ payloadAttributes(ChanPayload) = <<>>
    /\ \E c \in Calls :
           /\ Returned(c) /\ calls[c].ret.val = 7
           /\ PrimarySpan(c).recording /\ PrimaryHandle(c) \in exported
           /\ AttrValues(PrimarySpan(c), ProcessCPUTime) = {}
           /\ C13_Keys(PrimarySpan(c).attrs) = {Payload, PayloadSize}

\* C14: a panic of the wrapped generator reaches the caller of Intn as it
\* is: the call exits by panic with the same panic value and returns no
\* integer; Intn exits by panic only when the wrapped generator panicked, and
\* gives its caller nothing, value or panic, before the wrapped generator has
\* finished.
C14_PanicPropagates ==
    \A c \in Calls :
        /\ ~Exited(c) => calls[c].ret = NoOutcome
        /\ (Exited(c) /\ calls[c].wrapped.kind = "panic") =>
               /\ calls[c].ret.kind = "panic"
               /\ calls[c].ret.kind # "return"
               /\ calls[c].ret.panic = calls[c].wrapped.panic
        /\ (Exited(c) /\ calls[c].ret.kind = "panic") =>
               /\ calls[c].invoked = 1
               /\ calls[c].wrapped.kind = "panic"
               /\ calls[c].wrapped.panic = calls[c].ret.panic

\* The wrapped generator was invoked and panicked with "boom", and the
\* caller of Intn got the panic "boom"; another call returned an integer.
C14_Witness ==
    \E c, d \in Calls :
        /\ Panicked(c) /\ calls[c].invoked = 1
        /\ calls[c].wrapped.panic = "boom" /\ calls[c].ret.panic = "boom"
        /\ Returned(d) /\ calls[d].ret.val = 7

====
